---- MODULE Spec2Model ----
(***************************************************************************)
(* PCB Track backend: the board store, the change log and the stage        *)
(* catalog of src/backend (main.py, db.py, models.py), as a state machine  *)
(* over the SQLite tables boards and change_log, one action per HTTP       *)
(* handler.                                                                *)
(*                                                                         *)
(* Conventions                                                             *)
(*   Optional[T]    NULL == <<>> for None, Some(x) == <<x>> otherwise.     *)
(*   Python values  that travel through json.dumps / json.loads are tagged *)
(*                  trees: [t |-> "None"], [t |-> "bool", v |-> ...],      *)
(*                  [t |-> "str", ...], [t |-> "list", ...],               *)
(*                  [t |-> "dict", v |-> [key |-> value]].                 *)
(*   JSON text      is its parse tree, tagged "null", "bool", "string",    *)
(*                  "array", "object".                                     *)
(*   Timestamps     now_iso() strings are natural numbers (clock ticks).   *)
(*   SQLite INTEGER columns hold 0 / 1 for the boolean fields.             *)
(*   Tables         boards and change_log are functions from the primary   *)
(*                  key to the row.                                        *)
(*                  users is the set of its primary keys (its one column). *)
(*   Names          of users are sequences of characters, so that strip()  *)
(*                  and the ORDER BY of the roster are computed.           *)
(*   inflight       the request each worker thread of the server is in the *)
(*                  middle of, between its SELECT and its write.           *)
(*   last           the last write request served: handler, addressed id,  *)
(*                  the addressed row as the request found it, response.   *)
(*                                                                         *)
(* Spec follows one board with its change log, one request at a time;      *)
(* SpecBoards follows a fleet of boards without the change log; SpecUsers  *)
(* follows the user directory; SpecRaces follows one board under requests  *)
(* served concurrently, statement by statement; SpecLogRaces follows the   *)
(* change log next to hard deletes served concurrently.                    *)
(***************************************************************************)
EXTENDS Integers, Sequences, FiniteSets, TLC

VARIABLES boards, change_log, users, clock, boardIds, entryIds, inflight, last

vars == <<boards, change_log, users, clock, boardIds, entryIds, inflight, last>>

----------------------------------------------------------------------------
(* Bounds of the model *)

\* boards created in one behaviour of Spec (uuid4 calls of create_board)
MaxBoards == 1
\* boards created in one behaviour of SpecBoards
MaxFleet == 2
\* change-log entries appended in one behaviour (uuid4 calls of add_changelog)
MaxLog == 2
\* last tick of the wall clock; now_iso() stays there once it is reached
MaxClock == 2
\* longest user name a request carries, in characters
MaxNameLen == 3
\* most names the users table holds in one behaviour of SpecUsers
MaxRoster == 2
\* worker threads that serve requests at the same time in SpecRaces
MaxThreads == 2

----------------------------------------------------------------------------
(* Optional values, Python truthiness *)

NULL == <<>>
Some(x) == <<x>>
IsNone(o) == o = NULL
Val(o) == o[1]

\* bool(x) of an SQLite INTEGER
PyBoolOfInt(i) == i # 0
\* `1 if b else 0`
IntOfBool(b) == IF b THEN 1 ELSE 0
\* truthiness of a Python str: the empty string is falsy
StrTruthy(s) == s # ""

----------------------------------------------------------------------------
(* Tagged Python values and JSON text *)

PyNone == [t |-> "None"]
PyBool(b) == [t |-> "bool", v |-> b]
PyStr(s) == [t |-> "str", v |-> s]
PyList(q) == [t |-> "list", v |-> q]
PyDict(f) == [t |-> "dict", v |-> f]

RECURSIVE json_dumps(_)
json_dumps(p) ==
  CASE p.t = "None" -> [t |-> "null"]
    [] p.t = "bool" -> [t |-> "bool", v |-> p.v]
    [] p.t = "str"  -> [t |-> "string", v |-> p.v]
    [] p.t = "list" -> [t |-> "array", v |-> [i \in DOMAIN p.v |-> json_dumps(p.v[i])]]
    [] p.t = "dict" -> [t |-> "object", v |-> [k \in DOMAIN p.v |-> json_dumps(p.v[k])]]

RECURSIVE json_loads(_)
json_loads(j) ==
  CASE j.t = "null"   -> PyNone
    [] j.t = "bool"   -> PyBool(j.v)
    [] j.t = "string" -> PyStr(j.v)
    [] j.t = "array"  -> PyList([i \in DOMAIN j.v |-> json_loads(j.v[i])])
    [] j.t = "object" -> PyDict([k \in DOMAIN j.v |-> json_loads(j.v[k])])

----------------------------------------------------------------------------
(* The stage catalog (main.py STAGE_TEMPLATES; the en dash of the two      *)
(* "Confluence" task names is written "-")                                 *)

STAGE_TEMPLATES ==
  <<
     [name |-> "Pre-Schematics",
      tasks |->
        << "Requirements Available",
        "EQ Review (Previous revision)",
        "Bringup notes (Previous revision)",
        "Mechanical notes (Previous revision)",
        "Comments 365 (Previous revision)",
        "Block Diagram Updated",
        "Power Tree Updated",
        "Shielding",
        "PDR Completed" >>],
     [name |-> "Schematics",
      tasks |->
        << "Schematic design",
        "Test points",
        "GND hooks",
        "Shielding",
        "Parts in BOM" >>],
     [name |-> "Layout",
      tasks |->
        << "Define Rules",
        "Define Stackup",
        "Get DXF",
        "Concept Placement",
        "First Mechanical Approval",
        "Placement",
        "Second Mechanical Approval",
        "Wiring",
        "Impedance control done?",
        "Length matching done?",
        "Filling and capping vias sets?",
        "TEAR DROPS optional done?",
        "Backdrill done?",
        "STITCHING and shielding? (if need)",
        "Check BOARD outline (5mil) layers",
        "Check Assembly layer",
        "Silk overview [name connectors(pins?), part number, serial number]",
        "Final Mechanical Approval" >>],
     [name |-> "Release",
      tasks |->
        << "Update Issues Excel",
        "Issues Excel Review",
        "Draftsman",
        "Confluence - Main Page",
        "Confluence - Bringup",
        "Software fetchers doc" >>],
     [name |-> "Order",
      tasks |->
        << "PCB Ordered",
        "PCB Received",
        "Assembly Ordered",
        "Assembly Received" >>],
     [name |-> "Bringup",
      tasks |->
        << "Bringup Started",
        "Bringup Completed",
        "Bringup Notes Updated" >>],
     [name |-> "Validation",
      tasks |->
        << "Bringup Completed",
        "Board outline",
        "BOM components stage",
        "Planes" >>],
     [name |-> "In Production",
      subcategories |->
        << [name |-> "Mechanical",
           tasks |-> << "Mechanical Integration Complete",
                     "Mechanical Testing Passed",
                     "Mechanical Sign-Off" >>],
           [name |-> "Embedded",
           tasks |-> << "Firmware Loaded",
                     "Embedded Testing Complete",
                     "Embedded Sign-Off" >>],
           [name |-> "Software",
           tasks |-> << "Software Integration Complete",
                     "Software Testing Passed",
                     "Software Sign-Off" >>],
           [name |-> "System",
           tasks |-> << "System Integration Complete",
                     "System Testing Passed",
                     "System Sign-Off" >>] >>]
  >>

\* `"k" in d` for a catalog entry or a Python dict
HasKey(d, k) == k \in DOMAIN d

TaskDict(name) ==
  PyDict([name |-> PyStr(name),
          designerApproved |-> PyBool(FALSE),
          reviewerApproved |-> PyBool(FALSE)])

\* faulty build_default_stages: every stage starts with a "tasks" list, empty
\* when the template has subcategories
DefaultStage_TasksAlways(st) ==
  LET base == [name |-> PyStr(st.name)]
      withTasks ==
        base @@ [tasks |-> PyList(IF HasKey(st, "tasks")
                                  THEN [i \in DOMAIN st.tasks |-> TaskDict(st.tasks[i])]
                                  ELSE <<>>)]
      withSubs ==
        IF HasKey(st, "subcategories")
        THEN withTasks @@
             [subcategories |->
                PyList([i \in DOMAIN st.subcategories |->
                  PyDict([name |-> PyStr(st.subcategories[i].name),
                          designerApproved |-> PyBool(FALSE),
                          reviewerApproved |-> PyBool(FALSE),
                          tasks |-> PyList([n \in DOMAIN st.subcategories[i].tasks |->
                                             TaskDict(st.subcategories[i].tasks[n])])])])]
        ELSE withTasks
  IN PyDict(withSubs)

\* the dict build_default_stages builds for one template stage
DefaultStage(st) ==
  LET base == [name |-> PyStr(st.name)]
      withTasks ==
        IF HasKey(st, "tasks")
        THEN base @@ [tasks |-> PyList([i \in DOMAIN st.tasks |-> TaskDict(st.tasks[i])])]
        ELSE base
      withSubs ==
        IF HasKey(st, "subcategories")
        THEN withTasks @@
             [subcategories |->
                PyList([i \in DOMAIN st.subcategories |->
                  PyDict([name |-> PyStr(st.subcategories[i].name),
                          designerApproved |-> PyBool(FALSE),
                          reviewerApproved |-> PyBool(FALSE),
                          tasks |-> PyList([n \in DOMAIN st.subcategories[i].tasks |->
                                             TaskDict(st.subcategories[i].tasks[n])])])])]
        ELSE withTasks
  IN PyDict(withSubs)

build_default_stages == PyList([i \in DOMAIN STAGE_TEMPLATES |-> DefaultStage(STAGE_TEMPLATES[i])])

----------------------------------------------------------------------------
(* models.py: validation of a Python value into a model, and model_dump    *)

\* an Optional field of a model read from a dict: absent or None gives None
OptOf(d, k) == IF HasKey(d, k) /\ d[k].t # "None" THEN Some(d[k].v) ELSE NULL
\* model_dump of an Optional primitive field
DumpOptBool(o) == IF IsNone(o) THEN PyNone ELSE PyBool(Val(o))
DumpOptStr(o) == IF IsNone(o) THEN PyNone ELSE PyStr(Val(o))

\* Task(**d)
Task(p) ==
  [name |-> p.v.name.v,
   designerApproved |-> p.v.designerApproved.v,
   reviewerApproved |-> p.v.reviewerApproved.v,
   required |-> OptOf(p.v, "required"),
   url |-> OptOf(p.v, "url"),
   comments |-> OptOf(p.v, "comments")]

TaskList(p) == [i \in DOMAIN p.v |-> Task(p.v[i])]

\* Subcategory(**d): tasks defaults to the empty list
Subcategory(p) ==
  [name |-> p.v.name.v,
   designerApproved |-> OptOf(p.v, "designerApproved"),
   reviewerApproved |-> OptOf(p.v, "reviewerApproved"),
   tasks |-> IF HasKey(p.v, "tasks") THEN TaskList(p.v.tasks) ELSE <<>>]

\* Stage(**d): tasks and subcategories default to None
Stage(p) ==
  [name |-> p.v.name.v,
   tasks |-> IF HasKey(p.v, "tasks") /\ p.v.tasks.t # "None"
             THEN Some(TaskList(p.v.tasks)) ELSE NULL,
   subcategories |-> IF HasKey(p.v, "subcategories") /\ p.v.subcategories.t # "None"
                     THEN Some([i \in DOMAIN p.v.subcategories.v |->
                                  Subcategory(p.v.subcategories.v[i])])
                     ELSE NULL]

\* the List[Stage] field of PCBBoard
StageList(p) == [i \in DOMAIN p.v |-> Stage(p.v[i])]

Task_model_dump(t) ==
  PyDict([name |-> PyStr(t.name),
          designerApproved |-> PyBool(t.designerApproved),
          reviewerApproved |-> PyBool(t.reviewerApproved),
          required |-> DumpOptBool(t.required),
          url |-> DumpOptStr(t.url),
          comments |-> DumpOptStr(t.comments)])

Subcategory_model_dump(sc) ==
  PyDict([name |-> PyStr(sc.name),
          designerApproved |-> DumpOptBool(sc.designerApproved),
          reviewerApproved |-> DumpOptBool(sc.reviewerApproved),
          tasks |-> PyList([i \in DOMAIN sc.tasks |-> Task_model_dump(sc.tasks[i])])])

\* s.model_dump() of a Stage: every field is emitted, None included
Stage_model_dump(s) ==
  PyDict([name |-> PyStr(s.name),
          tasks |-> IF IsNone(s.tasks) THEN PyNone
                    ELSE PyList([i \in DOMAIN Val(s.tasks) |-> Task_model_dump(Val(s.tasks)[i])]),
          subcategories |->
            IF IsNone(s.subcategories) THEN PyNone
            ELSE PyList([i \in DOMAIN Val(s.subcategories) |->
                           Subcategory_model_dump(Val(s.subcategories)[i])])])

----------------------------------------------------------------------------
(* db.py: rows of the three tables and their conversion to API dicts       *)

\* a row of `boards` as a dict for PCBBoard(**...); updated_at is not exposed
row_to_board_dict(r) ==
  [id |-> r.id,
   boardName |-> r.board_name,
   partNumber |-> r.part_number,
   revision |-> r.revision,
   project |-> r.project,
   isNewRevision |-> PyBoolOfInt(r.is_new_revision),
   arrivedDate |-> IF StrTruthy(r.arrived_date) THEN r.arrived_date ELSE "",
   isArrived |-> PyBoolOfInt(r.is_arrived),
   passFailStatus |-> r.pass_fail_status,
   \* stages_json is written by json.dumps only, so the text is never empty
   stages |-> json_loads(r.stages_json),
   createdAt |-> r.created_at,
   isDeleted |-> Some(PyBoolOfInt(r.is_deleted)),
   deletedAt |-> r.deleted_at]

row_to_changelog_dict(r) ==
  [id |-> r.id,
   timestamp |-> r.timestamp,
   userRole |-> r.user_role,
   userName |-> r.user_name,
   boardId |-> r.board_id,
   boardName |-> r.board_name,
   revision |-> r.revision,
   stage |-> r.stage,
   task |-> r.task,
   field |-> r.field,
   oldValue |-> r.old_value,
   newValue |-> r.new_value]

\* PCBBoard(**d): the stages are validated into Stage models
PCBBoard(d) == [d EXCEPT !.stages = StageList(d.stages)]

\* ChangeLogEntry(**d)
ChangeLogEntry(d) == d

----------------------------------------------------------------------------
(* Identifiers and time *)

\* str(uuid4()) of create_board: the n-th board id, never empty, never reused
BoardId(n) == "b" \o ToString(n)
\* str(uuid4()) of add_changelog
EntryId(n) == "e" \o ToString(n)

\* an id no board ever gets
GhostId == "ghost"

\* the ids a board request may address when at most `cap` boards are created
AddrIds(cap) == {BoardId(n) : n \in 1..cap} \cup {GhostId}
\* the boardId values of change-log requests; the empty string is a valid str
LogBoardIds == AddrIds(MaxBoards) \cup {""}

\* now_iso(): the wall clock does not run backwards and stops at MaxClock
Now == {t \in {clock, clock + 1} : t <= MaxClock}

----------------------------------------------------------------------------
(* SQL statements *)

\* SELECT * FROM boards WHERE id=? (id is the primary key: at most one row)
SelectBoard(tbl, board_id) == IF board_id \in DOMAIN tbl THEN <<tbl[board_id]>> ELSE <<>>

\* the rows of a table
Rows(tbl) == {tbl[k] : k \in DOMAIN tbl}

\* the sequences that hold every row of S once
Orders(S) ==
  {q \in [1..Cardinality(S) -> S] : \A i, j \in DOMAIN q : i # j => q[i] # q[j]}

\* all orders ORDER BY created_at DESC may return (ties in any order)
OrderByCreatedAtDesc(S) ==
  {q \in Orders(S) : \A i, j \in DOMAIN q : i < j => q[i].created_at >= q[j].created_at}

\* all orders ORDER BY timestamp DESC may return (ties in any order)
OrderByTimestampDesc(S) ==
  {q \in Orders(S) : \A i, j \in DOMAIN q : i < j => q[i].timestamp >= q[j].timestamp}

\* faulty list_boards: the WHERE is_deleted=0 branch is lost
ListBoardsRows_Unfiltered(tbl, includeDeleted) == Rows(tbl)

\* the rows list_boards selects
ListBoardsRows(tbl, includeDeleted) ==
  IF includeDeleted THEN Rows(tbl) ELSE {r \in Rows(tbl) : r.is_deleted = 0}

\* the rows get_changelog selects: a falsy boardId (None or "") is no filter
ChangelogRows(tbl, boardId) ==
  IF ~IsNone(boardId) /\ StrTruthy(Val(boardId))
  THEN {r \in Rows(tbl) : r.board_id = Val(boardId)}
  ELSE Rows(tbl)

\* faulty INSERT of create_board: is_new_revision is left at 0
CreateRow_NewRevisionDropped(board_id, req, stages, ts) ==
  [id |-> board_id,
   board_name |-> req.boardName,
   part_number |-> req.partNumber,
   revision |-> req.revision,
   project |-> req.project,
   is_new_revision |-> 0,
   arrived_date |-> "",
   is_arrived |-> 0,
   pass_fail_status |-> NULL,
   stages_json |-> json_dumps(stages),
   created_at |-> ts,
   updated_at |-> ts,
   is_deleted |-> 0,
   deleted_at |-> NULL]

\* INSERT INTO boards of create_board
CreateRow(board_id, req, stages, ts) ==
  [id |-> board_id,
   board_name |-> req.boardName,
   part_number |-> req.partNumber,
   revision |-> req.revision,
   project |-> req.project,
   is_new_revision |-> IntOfBool(req.isNewRevision),
   arrived_date |-> "",
   is_arrived |-> 0,
   pass_fail_status |-> NULL,
   stages_json |-> json_dumps(stages),
   created_at |-> ts,
   updated_at |-> ts,
   is_deleted |-> 0,
   deleted_at |-> NULL]

\* faulty UPDATE of update_board: revision and part_number bound in the wrong order
UpdateRow_ColumnsSwapped(r, board, updated_at) ==
  [r EXCEPT
     !.board_name = board.boardName,
     !.part_number = board.revision,
     !.revision = board.partNumber,
     !.project = board.project,
     !.is_new_revision = IntOfBool(board.isNewRevision),
     !.arrived_date = IF StrTruthy(board.arrivedDate) THEN board.arrivedDate ELSE "",
     !.is_arrived = IntOfBool(board.isArrived),
     !.pass_fail_status = board.passFailStatus,
     !.stages_json = json_dumps(PyList([i \in DOMAIN board.stages |->
                                          Stage_model_dump(board.stages[i])])),
     !.updated_at = updated_at,
     !.is_deleted = IntOfBool(IF IsNone(board.isDeleted) THEN FALSE ELSE Val(board.isDeleted)),
     !.deleted_at = board.deletedAt]

\* faulty UPDATE of update_board: created_at is taken from the payload too
UpdateRow_WritesCreatedAt(r, board, updated_at) ==
  [r EXCEPT
     !.board_name = board.boardName,
     !.part_number = board.partNumber,
     !.revision = board.revision,
     !.project = board.project,
     !.is_new_revision = IntOfBool(board.isNewRevision),
     !.arrived_date = IF StrTruthy(board.arrivedDate) THEN board.arrivedDate ELSE "",
     !.is_arrived = IntOfBool(board.isArrived),
     !.pass_fail_status = board.passFailStatus,
     !.stages_json = json_dumps(PyList([i \in DOMAIN board.stages |->
                                          Stage_model_dump(board.stages[i])])),
     !.created_at = board.createdAt,
     !.updated_at = updated_at,
     !.is_deleted = IntOfBool(IF IsNone(board.isDeleted) THEN FALSE ELSE Val(board.isDeleted)),
     !.deleted_at = board.deletedAt]

\* UPDATE boards SET ... of update_board
UpdateRow(r, board, updated_at) ==
  [r EXCEPT
     !.board_name = board.boardName,
     !.part_number = board.partNumber,
     !.revision = board.revision,
     !.project = board.project,
     !.is_new_revision = IntOfBool(board.isNewRevision),
     !.arrived_date = IF StrTruthy(board.arrivedDate) THEN board.arrivedDate ELSE "",
     !.is_arrived = IntOfBool(board.isArrived),
     !.pass_fail_status = board.passFailStatus,
     !.stages_json = json_dumps(PyList([i \in DOMAIN board.stages |->
                                          Stage_model_dump(board.stages[i])])),
     !.updated_at = updated_at,
     !.is_deleted = IntOfBool(IF IsNone(board.isDeleted) THEN FALSE ELSE Val(board.isDeleted)),
     !.deleted_at = board.deletedAt]

\* faulty soft delete: the flag is toggled instead of set
SoftDeleteRow_Toggles(r, deleted_at) ==
  [r EXCEPT !.is_deleted = 1 - r.is_deleted, !.deleted_at = Some(deleted_at),
            !.updated_at = deleted_at]

\* faulty soft delete: deleted_at is not written
SoftDeleteRow_FlagOnly(r, deleted_at) ==
  [r EXCEPT !.is_deleted = 1, !.updated_at = deleted_at]

\* UPDATE boards SET is_deleted=1, deleted_at=?, updated_at=?
SoftDeleteRow(r, deleted_at) ==
  [r EXCEPT !.is_deleted = 1, !.deleted_at = Some(deleted_at), !.updated_at = deleted_at]

\* faulty restore: deleted_at is left as it was
RestoreRow_KeepsDeletedAt(r, ts) ==
  [r EXCEPT !.is_deleted = 0, !.updated_at = ts]

\* UPDATE boards SET is_deleted=0, deleted_at=NULL, updated_at=?
RestoreRow(r, ts) ==
  [r EXCEPT !.is_deleted = 0, !.deleted_at = NULL, !.updated_at = ts]

\* INSERT of a row under its primary key
InsertRow(tbl, r) == [k \in DOMAIN tbl \cup {r.id} |-> IF k = r.id THEN r ELSE tbl[k]]

\* UPDATE boards SET ... WHERE id=?: the row under board_id becomes `row`
UpdateWhereId(tbl, board_id, row) ==
  [k \in DOMAIN tbl |-> IF tbl[k].id = board_id THEN row ELSE tbl[k]]

\* DELETE FROM boards WHERE id=?
DeleteBoardRows(tbl, board_id) ==
  [k \in {i \in DOMAIN tbl : tbl[i].id # board_id} |-> tbl[k]]

\* faulty hard delete: the change-log rows are not deleted
DeleteChangelogRows_Kept(tbl, board_id) == tbl

\* faulty hard delete: the WHERE clause is lost and the whole log is purged
DeleteChangelogRows_Everything(tbl, board_id) == <<>>

\* DELETE FROM change_log WHERE board_id=?
DeleteChangelogRows(tbl, board_id) ==
  [k \in {i \in DOMAIN tbl : tbl[i].board_id # board_id} |-> tbl[k]]

\* faulty INSERT of add_changelog: board_id and board_name bound in the wrong order
ChangelogRow_ColumnsSwapped(entry_id, ts, req) ==
  [id |-> entry_id,
   timestamp |-> ts,
   user_role |-> req.userRole,
   user_name |-> req.userName,
   board_id |-> req.boardName,
   board_name |-> req.boardId,
   revision |-> req.revision,
   stage |-> req.stage,
   task |-> req.task,
   field |-> req.field,
   old_value |-> req.oldValue,
   new_value |-> req.newValue]

\* INSERT INTO change_log of add_changelog
ChangelogRow(entry_id, ts, req) ==
  [id |-> entry_id,
   timestamp |-> ts,
   user_role |-> req.userRole,
   user_name |-> req.userName,
   board_id |-> req.boardId,
   board_name |-> req.boardName,
   revision |-> req.revision,
   stage |-> req.stage,
   task |-> req.task,
   field |-> req.field,
   old_value |-> req.oldValue,
   new_value |-> req.newValue]

----------------------------------------------------------------------------
(* main.py: the handlers as functions of the tables they read and write.   *)
(* Each yields the HTTP status, the response body (a sequence: empty on an *)
(* error, one element for an object, the list for a list) and the tables   *)
(* as committed.                                                           *)

\* GET /api/boards: every order the ORDER BY admits
list_boards(tbl, includeDeleted) ==
  {[i \in DOMAIN q |-> PCBBoard(row_to_board_dict(q[i]))] :
     q \in OrderByCreatedAtDesc(ListBoardsRows(tbl, includeDeleted))}

\* GET /api/boards/{board_id}
get_board(tbl, board_id) ==
  LET r == SelectBoard(tbl, board_id)
  IN IF r = <<>>
     THEN [status |-> 404, body |-> <<>>]
     ELSE [status |-> 200, body |-> <<PCBBoard(row_to_board_dict(r[1]))>>]

\* faulty create_board: the row is keyed by part number and revision, so a
\* second board of the same part and revision takes the place of the first
create_board_KeyedByPart(tbl, board_id, req, ts) ==
  LET key == req.partNumber \o "/" \o req.revision
      board_dict ==
        [id |-> key,
         boardName |-> req.boardName,
         partNumber |-> req.partNumber,
         revision |-> req.revision,
         project |-> req.project,
         arrivedDate |-> "",
         isArrived |-> FALSE,
         passFailStatus |-> NULL,
         isNewRevision |-> req.isNewRevision,
         stages |-> build_default_stages,
         createdAt |-> ts,
         isDeleted |-> Some(FALSE),
         deletedAt |-> NULL]
  IN [status |-> 200,
      body |-> <<PCBBoard(board_dict)>>,
      boards |-> InsertRow(tbl, CreateRow(key, req, board_dict.stages, ts))]

\* POST /api/boards
create_board(tbl, board_id, req, ts) ==
  LET board_dict ==
        [id |-> board_id,
         boardName |-> req.boardName,
         partNumber |-> req.partNumber,
         revision |-> req.revision,
         project |-> req.project,
         arrivedDate |-> "",
         isArrived |-> FALSE,
         passFailStatus |-> NULL,
         isNewRevision |-> req.isNewRevision,
         stages |-> build_default_stages,
         createdAt |-> ts,
         isDeleted |-> Some(FALSE),
         deletedAt |-> NULL]
  IN [status |-> 200,
      body |-> <<PCBBoard(board_dict)>>,
      boards |-> InsertRow(tbl, CreateRow(board_id, req, board_dict.stages, ts))]

\* faulty update_board: the payload id is not compared with the path id
update_board_PathIdTrusted(tbl, board_id, board, updated_at) ==
  IF SelectBoard(tbl, board_id) = <<>>
  THEN [status |-> 404, body |-> <<>>, boards |-> tbl]
  ELSE [status |-> 200,
        body |-> <<board>>,
        boards |-> UpdateWhereId(tbl, board_id,
                                 UpdateRow(SelectBoard(tbl, board_id)[1], board, updated_at))]

\* PUT /api/boards/{board_id}
update_board(tbl, board_id, board, updated_at) ==
  IF board.id # board_id
  THEN [status |-> 400, body |-> <<>>, boards |-> tbl]
  ELSE IF SelectBoard(tbl, board_id) = <<>>
  THEN [status |-> 404, body |-> <<>>, boards |-> tbl]
  ELSE [status |-> 200,
        body |-> <<board>>,
        boards |-> UpdateWhereId(tbl, board_id,
                                 UpdateRow(SelectBoard(tbl, board_id)[1], board, updated_at))]

\* POST /api/boards/{board_id}/delete
soft_delete_board(tbl, board_id, deleted_at) ==
  IF SelectBoard(tbl, board_id) = <<>>
  THEN [status |-> 404, body |-> <<>>, boards |-> tbl]
  ELSE LET tbl2 == UpdateWhereId(tbl, board_id,
                                 SoftDeleteRow(SelectBoard(tbl, board_id)[1], deleted_at))
           r2 == SelectBoard(tbl2, board_id)[1]
       IN [status |-> 200, body |-> <<PCBBoard(row_to_board_dict(r2))>>, boards |-> tbl2]

\* POST /api/boards/{board_id}/restore
restore_board(tbl, board_id, ts) ==
  IF SelectBoard(tbl, board_id) = <<>>
  THEN [status |-> 404, body |-> <<>>, boards |-> tbl]
  ELSE LET tbl2 == UpdateWhereId(tbl, board_id,
                                 RestoreRow(SelectBoard(tbl, board_id)[1], ts))
           r2 == SelectBoard(tbl2, board_id)[1]
       IN [status |-> 200, body |-> <<PCBBoard(row_to_board_dict(r2))>>, boards |-> tbl2]

\* faulty permanent_delete_board: the existence check is missing
permanent_delete_board_Unchecked(tbl, log, board_id) ==
  [status |-> 200,
   body |-> <<[ok |-> TRUE]>>,
   boards |-> DeleteBoardRows(tbl, board_id),
   change_log |-> DeleteChangelogRows(log, board_id)]

\* DELETE /api/boards/{board_id}
permanent_delete_board(tbl, log, board_id) ==
  IF SelectBoard(tbl, board_id) = <<>>
  THEN [status |-> 404, body |-> <<>>, boards |-> tbl, change_log |-> log]
  ELSE [status |-> 200,
        body |-> <<[ok |-> TRUE]>>,
        boards |-> DeleteBoardRows(tbl, board_id),
        change_log |-> DeleteChangelogRows(log, board_id)]

\* GET /api/changelog: every order the ORDER BY admits
get_changelog(log, boardId) ==
  {[i \in DOMAIN q |-> ChangeLogEntry(row_to_changelog_dict(q[i]))] :
     q \in OrderByTimestampDesc(ChangelogRows(log, boardId))}

\* POST /api/changelog
add_changelog(log, entry_id, ts, req) ==
  LET entry ==
        [id |-> entry_id,
         timestamp |-> ts,
         userRole |-> req.userRole,
         userName |-> req.userName,
         boardId |-> req.boardId,
         boardName |-> req.boardName,
         revision |-> req.revision,
         stage |-> req.stage,
         task |-> req.task,
         field |-> req.field,
         oldValue |-> req.oldValue,
         newValue |-> req.newValue]
  IN [status |-> 200,
      body |-> <<ChangeLogEntry(entry)>>,
      change_log |-> InsertRow(log, ChangelogRow(entry_id, ts, req))]

----------------------------------------------------------------------------
(* Requests the clients send *)

\* CreateBoardRequest bodies
CreateRequests ==
  {[boardName |-> "Alpha", partNumber |-> "PN-1", revision |-> "A",
    project |-> "X", isNewRevision |-> FALSE],
   [boardName |-> "Beta", partNumber |-> "PN-1", revision |-> "A",
    project |-> "X", isNewRevision |-> TRUE]}

\* a task with every optional field set
EditedTask ==
  [name |-> "Requirements Available", designerApproved |-> TRUE,
   reviewerApproved |-> FALSE, required |-> Some(TRUE),
   url |-> Some("http://doc"), comments |-> Some("")]

PlainTask ==
  [name |-> "Mechanical Sign-Off", designerApproved |-> TRUE,
   reviewerApproved |-> TRUE, required |-> NULL, url |-> NULL, comments |-> NULL]

\* a progress tree a client edited: a flat stage, a grouped stage, a stage with
\* neither tasks nor subcategories and one with both, empty (Update does not
\* re-validate the shape)
EditedStages ==
  << [name |-> "Pre-Schematics", tasks |-> Some(<<EditedTask, PlainTask>>),
      subcategories |-> NULL],
     [name |-> "In Production", tasks |-> NULL,
      subcategories |-> Some(<< [name |-> "Mechanical", designerApproved |-> Some(TRUE),
                                 reviewerApproved |-> NULL, tasks |-> <<PlainTask>>],
                                [name |-> "System", designerApproved |-> NULL,
                                 reviewerApproved |-> Some(FALSE), tasks |-> <<>>] >>)],
     [name |-> "Order", tasks |-> NULL, subcategories |-> NULL],
     [name |-> "Bringup", tasks |-> Some(<<>>), subcategories |-> Some(<<>>)] >>

\* PCBBoard bodies of PUT, without the id
GammaBody ==
  [boardName |-> "Gamma", partNumber |-> "PN-2", revision |-> "B",
   project |-> "Y", arrivedDate |-> "2024-01-02", isArrived |-> TRUE,
   passFailStatus |-> Some("Pass"), isNewRevision |-> TRUE, stages |-> EditedStages,
   createdAt |-> 0, isDeleted |-> NULL, deletedAt |-> NULL]

FailedBody ==
  [boardName |-> "Alpha", partNumber |-> "PN-1", revision |-> "A",
   project |-> "X", arrivedDate |-> "", isArrived |-> TRUE,
   passFailStatus |-> Some("Fail"), isNewRevision |-> FALSE, stages |-> <<>>,
   createdAt |-> 1, isDeleted |-> Some(TRUE), deletedAt |-> NULL]

RenamedBody ==
  [boardName |-> "", partNumber |-> "A", revision |-> "PN-1",
   project |-> "X", arrivedDate |-> "", isArrived |-> FALSE,
   passFailStatus |-> NULL, isNewRevision |-> FALSE,
   stages |-> StageList(build_default_stages),
   createdAt |-> 1, isDeleted |-> Some(FALSE), deletedAt |-> Some(0)]

PayloadBodies == {GammaBody, FailedBody, RenamedBody}

\* the PCBBoard bodies sent to PUT /api/boards/{board_id}: every body under the
\* addressed id, and one body under each other id
UpdateRequests(board_id) ==
  {[id |-> board_id] @@ b : b \in PayloadBodies}
    \cup {[id |-> pid] @@ GammaBody : pid \in AddrIds(MaxBoards) \ {board_id}}

\* the requests of SpecBoards, which follows a fleet of boards
FleetCreateRequests == {r \in CreateRequests : r.boardName = "Alpha"}
FleetUpdateRequests(board_id) == {[id |-> board_id] @@ b : b \in {GammaBody, FailedBody}}

\* CreateChangeLogRequest bodies
ChangelogRequests ==
  {[userRole |-> IF bid = "" THEN "Reviewer" ELSE "Designer",
    userName |-> IF bid = GhostId THEN NULL ELSE Some("dana"),
    boardId |-> bid, boardName |-> "Alpha", revision |-> "A", stage |-> "Layout",
    task |-> "Wiring", field |-> "designerApproved", oldValue |-> "false",
    newValue |-> "true"] : bid \in LogBoardIds}

----------------------------------------------------------------------------
(* The state machine *)

\* the last write request served: its handler, the id it addressed, the row
\* of that board when the request arrived (if any), and the response
Response(op, arg, was, status, body) ==
  [op |-> op, arg |-> arg, was |-> was, status |-> status, body |-> body]

\* the worker threads of the server (the handlers are plain `def` functions,
\* which FastAPI runs on a thread pool)
Threads == 1..MaxThreads
\* a thread that is between requests
Idle == [pc |-> "idle"]

\* init_db on an empty database file
Init ==
  /\ boards = <<>>
  /\ change_log = <<>>
  /\ clock = 1
  /\ users = <<>>
  /\ boardIds = 0
  /\ entryIds = 0
  /\ inflight = [t \in Threads |-> Idle]
  /\ last = Response("init", "", <<>>, 0, <<>>)

\* the read-only handlers commit nothing; the response of each is the value of
\* its function in the state it is served in
List(includeDeleted) ==
  /\ list_boards(boards, includeDeleted) # {}
  /\ UNCHANGED vars

Get(board_id) ==
  /\ get_board(boards, board_id).status \in {200, 404}
  /\ UNCHANGED vars

Create(req, cap) ==
  /\ boardIds < cap
  /\ \E ts \in Now :
       LET fx == create_board(boards, BoardId(boardIds + 1), req, ts)
       IN /\ boards' = fx.boards
          /\ clock' = ts
          /\ last' = Response("create_board", BoardId(boardIds + 1), <<>>, fx.status, fx.body)
  /\ boardIds' = boardIds + 1
  /\ UNCHANGED <<change_log, users, entryIds, inflight>>

\* now_iso() is reached only past the 400 and 404 checks
Update(board_id, board) ==
  /\ \E updated_at \in Now :
       LET fx == update_board(boards, board_id, board, updated_at)
       IN /\ fx.status # 200 => updated_at = clock
          /\ boards' = fx.boards
          /\ clock' = updated_at
          /\ last' = Response("update_board", board_id,
                              SelectBoard(boards, board_id), fx.status, fx.body)
  /\ UNCHANGED <<change_log, users, boardIds, entryIds, inflight>>

SoftDelete(board_id) ==
  /\ \E deleted_at \in Now :
       LET fx == soft_delete_board(boards, board_id, deleted_at)
       IN /\ fx.status # 200 => deleted_at = clock
          /\ boards' = fx.boards
          /\ clock' = deleted_at
          /\ last' = Response("soft_delete_board", board_id,
                              SelectBoard(boards, board_id), fx.status, fx.body)
  /\ UNCHANGED <<change_log, users, boardIds, entryIds, inflight>>

Restore(board_id) ==
  /\ \E ts \in Now :
       LET fx == restore_board(boards, board_id, ts)
       IN /\ fx.status # 200 => ts = clock
          /\ boards' = fx.boards
          /\ clock' = ts
          /\ last' = Response("restore_board", board_id,
                              SelectBoard(boards, board_id), fx.status, fx.body)
  /\ UNCHANGED <<change_log, users, boardIds, entryIds, inflight>>

HardDelete(board_id) ==
  /\ LET fx == permanent_delete_board(boards, change_log, board_id)
     IN /\ boards' = fx.boards
        /\ change_log' = fx.change_log
        /\ last' = Response("permanent_delete_board", board_id,
                              SelectBoard(boards, board_id), fx.status, fx.body)
  /\ UNCHANGED <<users, clock, boardIds, entryIds, inflight>>

ChangelogList(boardId) ==
  /\ get_changelog(change_log, boardId) # {}
  /\ UNCHANGED vars

ChangelogAppend(req) ==
  /\ entryIds < MaxLog
  /\ \E ts \in Now :
       LET fx == add_changelog(change_log, EntryId(entryIds + 1), ts, req)
       IN /\ change_log' = fx.change_log
          /\ clock' = ts
          /\ last' = Response("add_changelog", req.boardId, <<>>, fx.status, fx.body)
  /\ entryIds' = entryIds + 1
  /\ UNCHANGED <<boards, users, boardIds, inflight>>

Next ==
  \/ \E includeDeleted \in BOOLEAN : List(includeDeleted)
  \/ \E board_id \in AddrIds(MaxBoards) : Get(board_id)
  \/ \E req \in CreateRequests : Create(req, MaxBoards)
  \/ \E board_id \in AddrIds(MaxBoards) : \E board \in UpdateRequests(board_id) :
       Update(board_id, board)
  \/ \E board_id \in AddrIds(MaxBoards) : SoftDelete(board_id)
  \/ \E board_id \in AddrIds(MaxBoards) : Restore(board_id)
  \/ \E board_id \in AddrIds(MaxBoards) : HardDelete(board_id)
  \/ \E boardId \in {NULL} \cup {Some(b) : b \in LogBoardIds} : ChangelogList(boardId)
  \/ \E req \in ChangelogRequests : ChangelogAppend(req)

Spec == Init /\ [][Next]_vars

\* the board store alone, with a fleet of MaxFleet boards
NextBoards ==
  \/ \E includeDeleted \in BOOLEAN : List(includeDeleted)
  \/ \E board_id \in AddrIds(MaxFleet) : Get(board_id)
  \/ \E req \in FleetCreateRequests : Create(req, MaxFleet)
  \/ \E board_id \in AddrIds(MaxFleet) : \E board \in FleetUpdateRequests(board_id) :
       Update(board_id, board)
  \/ \E board_id \in AddrIds(MaxFleet) : SoftDelete(board_id)
  \/ \E board_id \in AddrIds(MaxFleet) : Restore(board_id)
  \/ \E board_id \in AddrIds(MaxFleet) : HardDelete(board_id)

SpecBoards == Init /\ [][NextBoards]_vars

----------------------------------------------------------------------------
(* The user directory (main.py, Users)                                     *)

\* the characters of the names the clients send: a blank and a letter
Chars == {" ", "a"}
\* str.isspace() of one character
IsSpace(c) == c = " "
\* the code point of a character
Ord(c) == CASE c = " " -> 32 [] c = "a" -> 97

\* the values of CreateUserRequest.name: any str, the empty one included
Names == UNION {[1..n -> Chars] : n \in 0..MaxNameLen}
\* the values of the {name} path parameter: a path segment is not empty
PathNames == Names \ {<<>>}

\* str.strip(): leading and trailing whitespace removed, the inside kept
strip(s) ==
  LET inked == {i \in DOMAIN s : ~IsSpace(s[i])}
  IN IF inked = {}
     THEN <<>>
     ELSE SubSeq(s, CHOOSE i \in inked : \A j \in inked : i <= j,
                    CHOOSE i \in inked : \A j \in inked : i >= j)

\* x < y in SQLite's BINARY collation (memcmp, the shorter prefix first)
NameLess(x, y) ==
  \E k \in 1..(Len(x) + 1) :
    /\ k <= Len(y)
    /\ \A i \in 1..(k - 1) : x[i] = y[i]
    /\ (k > Len(x) \/ Ord(x[k]) < Ord(y[k]))

\* the users table holds, for each name, the number of rows with that name
\* (the PRIMARY KEY keeps it at one)
RECURSIVE SumRows(_, _)
SumRows(tbl, S) ==
  IF S = {} THEN 0
  ELSE LET n == CHOOSE n \in S : TRUE IN tbl[n] + SumRows(tbl, S \ {n})

\* SELECT COUNT(*) FROM users
UserRowCount(tbl) == SumRows(tbl, DOMAIN tbl)

\* SELECT name FROM users ORDER BY name ASC
SelectNamesAsc(tbl) ==
  CHOOSE q \in [1..UserRowCount(tbl) -> DOMAIN tbl] :
    /\ \A n \in DOMAIN tbl : Cardinality({i \in DOMAIN q : q[i] = n}) = tbl[n]
    /\ \A i, j \in DOMAIN q : i < j => (q[i] = q[j] \/ NameLess(q[i], q[j]))

\* faulty INSERT: the primary key is not enforced
InsertOrIgnoreUser_NoKey(tbl, name) ==
  [n \in DOMAIN tbl \cup {name} |->
     IF n = name THEN (IF n \in DOMAIN tbl THEN tbl[n] + 1 ELSE 1) ELSE tbl[n]]

\* INSERT OR IGNORE INTO users(name): a name already stored is left alone
InsertOrIgnoreUser(tbl, name) ==
  [n \in DOMAIN tbl \cup {name} |-> IF n \in DOMAIN tbl THEN tbl[n] ELSE 1]

\* DELETE FROM users WHERE name=?
DeleteUser(tbl, name) == [n \in DOMAIN tbl \ {name} |-> tbl[n]]

\* GET /api/users
list_users(tbl) == [status |-> 200, body |-> SelectNamesAsc(tbl)]

\* faulty add_user: the name is stored as supplied
add_user_Unstripped(tbl, req) ==
  IF strip(req.name) = <<>>
  THEN [status |-> 400, body |-> <<>>, users |-> tbl]
  ELSE [status |-> 200,
        body |-> SelectNamesAsc(InsertOrIgnoreUser(tbl, req.name)),
        users |-> InsertOrIgnoreUser(tbl, req.name)]

\* POST /api/users
add_user(tbl, req) ==
  LET name == strip(req.name)
  IN IF name = <<>>
     THEN [status |-> 400, body |-> <<>>, users |-> tbl]
     ELSE [status |-> 200,
           body |-> SelectNamesAsc(InsertOrIgnoreUser(tbl, name)),
           users |-> InsertOrIgnoreUser(tbl, name)]

\* DELETE /api/users/{name}
remove_user(tbl, name) ==
  [status |-> 200,
   body |-> SelectNamesAsc(DeleteUser(tbl, name)),
   users |-> DeleteUser(tbl, name)]

\* CreateUserRequest bodies
UserRequests == {[name |-> n] : n \in Names}

UsersList ==
  /\ list_users(users).status = 200
  /\ UNCHANGED vars

UserAdd(req) ==
  /\ LET fx == add_user(users, req)
     IN /\ UserRowCount(fx.users) <= MaxRoster
        /\ users' = fx.users
        /\ last' = Response("add_user", req.name, <<users>>, fx.status, fx.body)
  /\ UNCHANGED <<boards, change_log, clock, boardIds, entryIds, inflight>>

UserRemove(name) ==
  /\ LET fx == remove_user(users, name)
     IN /\ users' = fx.users
        /\ last' = Response("remove_user", name, <<users>>, fx.status, fx.body)
  /\ UNCHANGED <<boards, change_log, clock, boardIds, entryIds, inflight>>

NextUsers ==
  \/ UsersList
  \/ \E req \in UserRequests : UserAdd(req)
  \/ \E name \in PathNames : UserRemove(name)

SpecUsers == Init /\ [][NextUsers]_vars
----------------------------------------------------------------------------
(* Requests served at the same time (db.py db(), main.py handlers).        *)
(* Every request runs on its own connection.  sqlite3 opens a transaction  *)
(* at the first INSERT, UPDATE or DELETE of a connection, not at a SELECT, *)
(* so the SELECT that looks the board up reads the committed table and     *)
(* holds no lock afterwards; the write statements that follow it and the   *)
(* commit of db() take effect together, one connection at a time.  A       *)
(* handler is therefore two steps: its SELECT, then its write and commit.  *)
(* A writer waits for the lock of another (the busy timeout is not         *)
(* reached).                                                               *)

\* a thread past the SELECT of handler `op`: the id it addresses, the PUT
\* body (update_board), the value of now_iso(), and the handler that last
\* committed on that id since the SELECT, if any
Flight(op, board_id, board, ts) ==
  [pc |-> op, board_id |-> board_id, board |-> board, ts |-> ts, since |-> NULL]

\* the threads in flight on board_id other than t learn that `op` committed
Overtake(fl, t, board_id, op) ==
  [u \in DOMAIN fl |->
     IF u # t /\ fl[u].pc # "idle" /\ fl[u].board_id = board_id
     THEN [fl[u] EXCEPT !.since = Some(op)]
     ELSE fl[u]]

\* the response of a request served next to others: `was` is the row its
\* write statement found, `since` the handler that committed in between
RaceResponse(op, arg, was, since, status, body) ==
  [op |-> op, arg |-> arg, was |-> was, since |-> since, status |-> status, body |-> body]

\* faulty UPDATE of update_board: the stages are written by a statement of
\* their own, which is lost
UpdateStatement_StagesApart(tbl, board_id, board, updated_at) ==
  IF SelectBoard(tbl, board_id) = <<>>
  THEN tbl
  ELSE UpdateWhereId(tbl, board_id,
         [UpdateRow(SelectBoard(tbl, board_id)[1], board, updated_at) EXCEPT
            !.stages_json = SelectBoard(tbl, board_id)[1].stages_json])

\* UPDATE boards SET ... WHERE id=? of update_board on the table as it is
\* when the statement runs: no row is changed when the id is not stored
UpdateStatement(tbl, board_id, board, updated_at) ==
  IF SelectBoard(tbl, board_id) = <<>>
  THEN tbl
  ELSE UpdateWhereId(tbl, board_id,
                     UpdateRow(SelectBoard(tbl, board_id)[1], board, updated_at))

\* UPDATE boards SET is_deleted=1, ... WHERE id=? of soft_delete_board
SoftDeleteStatement(tbl, board_id, deleted_at) ==
  IF SelectBoard(tbl, board_id) = <<>>
  THEN tbl
  ELSE UpdateWhereId(tbl, board_id, SoftDeleteRow(SelectBoard(tbl, board_id)[1], deleted_at))

\* UPDATE boards SET is_deleted=0, ... WHERE id=? of restore_board
RestoreStatement(tbl, board_id, ts) ==
  IF SelectBoard(tbl, board_id) = <<>>
  THEN tbl
  ELSE UpdateWhereId(tbl, board_id, RestoreRow(SelectBoard(tbl, board_id)[1], ts))

\* the end of soft_delete_board and restore_board: the row is selected again
\* and returned; row_to_board_dict(None) raises TypeError, answered 500
ReturnRow(tbl, board_id) ==
  IF SelectBoard(tbl, board_id) = <<>>
  THEN [status |-> 500, body |-> <<>>]
  ELSE [status |-> 200, body |-> <<PCBBoard(row_to_board_dict(SelectBoard(tbl, board_id)[1]))>>]

\* update_board up to now_iso(): the id check and the SELECT
UpdateSelect(t, board_id, board) ==
  /\ inflight[t] = Idle
  /\ IF board.id # board_id
     THEN /\ last' = RaceResponse("update_board", board_id, <<>>, NULL, 400, <<>>)
          /\ UNCHANGED <<inflight, clock>>
     ELSE IF SelectBoard(boards, board_id) = <<>>
     THEN /\ last' = RaceResponse("update_board", board_id, <<>>, NULL, 404, <<>>)
          /\ UNCHANGED <<inflight, clock>>
     ELSE /\ \E ts \in Now :
               /\ inflight' = [inflight EXCEPT
                                ![t] = Flight("update_board", board_id, board, ts)]
               /\ clock' = ts
          /\ UNCHANGED last
  /\ UNCHANGED <<boards, change_log, users, boardIds, entryIds>>

\* update_board from the UPDATE to `return board`
UpdateCommit(t) ==
  /\ inflight[t].pc = "update_board"
  /\ boards' = UpdateStatement(boards, inflight[t].board_id, inflight[t].board, inflight[t].ts)
  /\ last' = RaceResponse("update_board", inflight[t].board_id,
                          SelectBoard(boards, inflight[t].board_id), inflight[t].since,
                          200, <<inflight[t].board>>)
  /\ inflight' = [Overtake(inflight, t, inflight[t].board_id, "update_board") EXCEPT ![t] = Idle]
  /\ UNCHANGED <<change_log, users, clock, boardIds, entryIds>>

\* soft_delete_board up to now_iso()
SoftDeleteSelect(t, board_id) ==
  /\ inflight[t] = Idle
  /\ IF SelectBoard(boards, board_id) = <<>>
     THEN /\ last' = RaceResponse("soft_delete_board", board_id, <<>>, NULL, 404, <<>>)
          /\ UNCHANGED <<inflight, clock>>
     ELSE /\ \E ts \in Now :
               /\ inflight' = [inflight EXCEPT
                                ![t] = Flight("soft_delete_board", board_id, <<>>, ts)]
               /\ clock' = ts
          /\ UNCHANGED last
  /\ UNCHANGED <<boards, change_log, users, boardIds, entryIds>>

\* soft_delete_board from the UPDATE to the return
SoftDeleteCommit(t) ==
  /\ inflight[t].pc = "soft_delete_board"
  /\ boards' = SoftDeleteStatement(boards, inflight[t].board_id, inflight[t].ts)
  /\ last' = RaceResponse("soft_delete_board", inflight[t].board_id,
                          SelectBoard(boards, inflight[t].board_id), inflight[t].since,
                          ReturnRow(boards', inflight[t].board_id).status,
                          ReturnRow(boards', inflight[t].board_id).body)
  /\ inflight' = [Overtake(inflight, t, inflight[t].board_id, "soft_delete_board")
                    EXCEPT ![t] = Idle]
  /\ UNCHANGED <<change_log, users, clock, boardIds, entryIds>>

\* restore_board up to now_iso()
RestoreSelect(t, board_id) ==
  /\ inflight[t] = Idle
  /\ IF SelectBoard(boards, board_id) = <<>>
     THEN /\ last' = RaceResponse("restore_board", board_id, <<>>, NULL, 404, <<>>)
          /\ UNCHANGED <<inflight, clock>>
     ELSE /\ \E ts \in Now :
               /\ inflight' = [inflight EXCEPT
                                ![t] = Flight("restore_board", board_id, <<>>, ts)]
               /\ clock' = ts
          /\ UNCHANGED last
  /\ UNCHANGED <<boards, change_log, users, boardIds, entryIds>>

\* restore_board from the UPDATE to the return
RestoreCommit(t) ==
  /\ inflight[t].pc = "restore_board"
  /\ boards' = RestoreStatement(boards, inflight[t].board_id, inflight[t].ts)
  /\ last' = RaceResponse("restore_board", inflight[t].board_id,
                          SelectBoard(boards, inflight[t].board_id), inflight[t].since,
                          ReturnRow(boards', inflight[t].board_id).status,
                          ReturnRow(boards', inflight[t].board_id).body)
  /\ inflight' = [Overtake(inflight, t, inflight[t].board_id, "restore_board")
                    EXCEPT ![t] = Idle]
  /\ UNCHANGED <<change_log, users, clock, boardIds, entryIds>>

\* permanent_delete_board: the SELECT
HardDeleteSelect(t, board_id) ==
  /\ inflight[t] = Idle
  /\ IF SelectBoard(boards, board_id) = <<>>
     THEN /\ last' = RaceResponse("permanent_delete_board", board_id, <<>>, NULL, 404, <<>>)
          /\ UNCHANGED <<inflight, clock>>
     ELSE /\ \E ts \in Now :
               /\ inflight' = [inflight EXCEPT
                                ![t] = Flight("permanent_delete_board", board_id, <<>>, ts)]
               /\ clock' = ts
          /\ UNCHANGED last
  /\ UNCHANGED <<boards, change_log, users, boardIds, entryIds>>

\* permanent_delete_board: the two DELETEs and the commit
HardDeleteCommit(t) ==
  /\ inflight[t].pc = "permanent_delete_board"
  /\ boards' = DeleteBoardRows(boards, inflight[t].board_id)
  /\ change_log' = DeleteChangelogRows(change_log, inflight[t].board_id)
  /\ last' = RaceResponse("permanent_delete_board", inflight[t].board_id,
                          SelectBoard(boards, inflight[t].board_id), inflight[t].since,
                          200, <<[ok |-> TRUE]>>)
  /\ inflight' = [Overtake(inflight, t, inflight[t].board_id, "permanent_delete_board")
                    EXCEPT ![t] = Idle]
  /\ UNCHANGED <<users, clock, boardIds, entryIds>>

\* create_board is a single INSERT: it is served in one step
NextRaces ==
  \/ \E req \in FleetCreateRequests : Create(req, MaxBoards)
  \/ \E board_id \in AddrIds(MaxBoards) : Get(board_id)
  \/ \E t \in Threads : \E board_id \in AddrIds(MaxBoards) :
       \E board \in FleetUpdateRequests(board_id) : UpdateSelect(t, board_id, board)
  \/ \E t \in Threads : UpdateCommit(t)
  \/ \E t \in Threads : \E board_id \in AddrIds(MaxBoards) : SoftDeleteSelect(t, board_id)
  \/ \E t \in Threads : SoftDeleteCommit(t)
  \/ \E t \in Threads : \E board_id \in AddrIds(MaxBoards) : RestoreSelect(t, board_id)
  \/ \E t \in Threads : RestoreCommit(t)
  \/ \E t \in Threads : \E board_id \in AddrIds(MaxBoards) : HardDeleteSelect(t, board_id)
  \/ \E t \in Threads : HardDeleteCommit(t)

SpecRaces == Init /\ [][NextRaces]_vars

\* the change log next to hard deletes served at the same time: create_board
\* and add_changelog are a single INSERT each and are served in one step
NextLogRaces ==
  \/ \E req \in FleetCreateRequests : Create(req, MaxBoards)
  \/ \E t \in Threads : \E board_id \in AddrIds(MaxBoards) : HardDeleteSelect(t, board_id)
  \/ \E t \in Threads : HardDeleteCommit(t)
  \/ \E boardId \in {NULL} \cup {Some(b) : b \in LogBoardIds} : ChangelogList(boardId)
  \/ \E req \in ChangelogRequests : ChangelogAppend(req)

SpecLogRaces == Init /\ [][NextLogRaces]_vars
----------------------------------------------------------------------------
(* What the clients observe *)

\* the board Get(id) returns for a stored id
View(tbl, board_id) == get_board(tbl, board_id).body[1]

\* the boards Get returns over all stored ids
StoredBoards == {View(boards, id) : id \in DOMAIN boards}

SeqRange(q) == {q[i] : i \in DOMAIN q}

\* a successful response of handler `op`
Served(op) == last.op = op /\ last.status = 200

\* board g carries payload p in every mutable field but isDeleted
CarriesPayload(g, p) ==
  /\ g.boardName = p.boardName
  /\ g.partNumber = p.partNumber
  /\ g.revision = p.revision
  /\ g.project = p.project
  /\ g.isNewRevision = p.isNewRevision
  /\ g.arrivedDate = p.arrivedDate
  /\ g.isArrived = p.isArrived
  /\ g.passFailStatus = p.passFailStatus
  /\ g.stages = p.stages
  /\ g.deletedAt = p.deletedAt

\* rows r and s agree outside the columns of the soft-delete statements
SameButDeletion(r, s) ==
  [r EXCEPT !.is_deleted = 0, !.deleted_at = NULL, !.updated_at = 0]
    = [s EXCEPT !.is_deleted = 0, !.deleted_at = NULL, !.updated_at = 0]

----------------------------------------------------------------------------
(* C1 - HardDelete *)

\* C1: in the state a successful HardDelete(id) leaves, Get(id) is NotFound,
\* List(includeDeleted=true) has no board with that id, and the change-log
\* List(boardId=id) is empty.
C1_HardDeleteRemoves ==
  Served("permanent_delete_board") =>
    /\ get_board(boards, last.arg).status = 404
    /\ list_boards(boards, TRUE) # {}
    /\ \A q \in list_boards(boards, TRUE) : \A i \in DOMAIN q : q[i].id # last.arg
    /\ get_changelog(change_log, Some(last.arg)) = {<<>>}

\* a HardDelete of a stored board that purged entries and left another entry
C1_Witness ==
  /\ Served("permanent_delete_board")
  /\ last.was # <<>>
  /\ change_log # <<>>
  /\ entryIds > Cardinality(DOMAIN change_log)

----------------------------------------------------------------------------
(* C2 - List and the soft-delete flag *)

\* C2: in every state List(includeDeleted=false) returns exactly the stored
\* boards whose isDeleted is false, each once, and none whose isDeleted is
\* true; List(includeDeleted=true) returns every stored board, each once.
C2_ListFilters ==
  /\ list_boards(boards, FALSE) # {}
  /\ list_boards(boards, TRUE) # {}
  /\ \A q \in list_boards(boards, FALSE) :
       /\ SeqRange(q) = {b \in StoredBoards : b.isDeleted = Some(FALSE)}
       /\ Len(q) = Cardinality(SeqRange(q))
       /\ \A i \in DOMAIN q : q[i].isDeleted # Some(TRUE)
  /\ \A q \in list_boards(boards, TRUE) :
       /\ SeqRange(q) = StoredBoards
       /\ Len(q) = Cardinality(DOMAIN boards)

\* an Update whose payload sets isDeleted has hidden one of two boards
C2_Witness ==
  /\ Served("update_board")
  /\ last.body[1].isDeleted = Some(TRUE)
  /\ \E other \in DOMAIN boards : other # last.arg /\ boards[other].is_deleted = 0
  /\ \A q \in list_boards(boards, FALSE) : Len(q) = 1 /\ q[1].id # last.arg

----------------------------------------------------------------------------
(* C3 - Update under a mismatched id *)

\* C3: an Update whose payload id differs from the addressed id answers 400
\* and changes neither the board store nor the change log.
C3_MismatchRejected ==
  [][\A board_id \in AddrIds(MaxBoards) : \A board \in UpdateRequests(board_id) :
       (board.id # board_id /\ Update(board_id, board)) =>
         /\ last'.status = 400
         /\ boards' = boards
         /\ change_log' = change_log]_vars

\* a mismatched Update addressed to a stored board, with a non-empty log
C3_Witness ==
  /\ last.op = "update_board"
  /\ last.status = 400
  /\ last.was # <<>>
  /\ change_log # <<>>

----------------------------------------------------------------------------
(* C4 - Update then Get *)

\* C4 as stated: after a successful Update(id, payload), Get(id) returns the
\* payload in every mutable field, isDeleted included, with id and createdAt
\* as stored before.
C4_GetReturnsPayload ==
  Served("update_board") =>
    /\ CarriesPayload(View(boards, last.arg), last.body[1])
    /\ View(boards, last.arg).isDeleted = last.body[1].isDeleted
    /\ View(boards, last.arg).id = last.was[1].id
    /\ View(boards, last.arg).createdAt = last.was[1].created_at

\* C4 amended: after a successful Update(id, payload), Get(id) returns the
\* payload in every mutable field, except that a payload isDeleted of null
\* is returned as false; id and createdAt are as stored before.
C4_GetReturnsNormalisedPayload ==
  Served("update_board") =>
    /\ CarriesPayload(View(boards, last.arg), last.body[1])
    /\ View(boards, last.arg).isDeleted =
         (IF IsNone(last.body[1].isDeleted) THEN Some(FALSE) ELSE last.body[1].isDeleted)
    /\ View(boards, last.arg).id = last.was[1].id
    /\ View(boards, last.arg).createdAt = last.was[1].created_at

\* an Update with an edited stages tree and isDeleted null has been served
C4_Witness ==
  /\ Served("update_board")
  /\ last.body[1].stages = EditedStages
  /\ IsNone(last.body[1].isDeleted)
  /\ View(boards, last.arg).stages = EditedStages
  /\ View(boards, last.arg).isDeleted = Some(FALSE)

----------------------------------------------------------------------------
(* C5 - id and createdAt *)

\* C5: the id and createdAt Get returns for a board are those the Create
\* response carried, and no later step changes them.
C5_IdCreatedAtPinned ==
  [][/\ \A id \in DOMAIN boards \cap DOMAIN boards' :
          /\ View(boards', id).id = View(boards, id).id
          /\ View(boards', id).createdAt = View(boards, id).createdAt
     /\ \A id \in DOMAIN boards' \ DOMAIN boards :
          /\ last'.op = "create_board"
          /\ View(boards', id).id = id
          /\ last'.body[1].id = id
          /\ View(boards', id).createdAt = last'.body[1].createdAt]_vars

\* an Update whose payload carried another createdAt has been served
C5_Witness ==
  /\ Served("update_board")
  /\ last.body[1].createdAt # last.was[1].created_at
  /\ View(boards, last.arg).createdAt = last.was[1].created_at

----------------------------------------------------------------------------
(* C6 - SoftDelete of a soft-deleted board *)

\* C6: SoftDelete of a board that is already soft-deleted succeeds, returns
\* the board with isDeleted true, and the stored row differs from the row
\* before the call in deleted_at and updated_at only.
C6_SoftDeleteAgain ==
  (last.op = "soft_delete_board" /\ last.was # <<>> /\ last.was[1].is_deleted = 1) =>
    /\ last.status = 200
    /\ last.body[1].isDeleted = Some(TRUE)
    /\ last.body[1] = View(boards, last.arg)
    /\ [boards[last.arg] EXCEPT !.deleted_at = NULL, !.updated_at = 0]
         = [last.was[1] EXCEPT !.deleted_at = NULL, !.updated_at = 0]
    /\ [View(boards, last.arg) EXCEPT !.deletedAt = NULL]
         = [PCBBoard(row_to_board_dict(last.was[1])) EXCEPT !.deletedAt = NULL]

\* a second SoftDelete that refreshed deletedAt
C6_Witness ==
  /\ Served("soft_delete_board")
  /\ last.was # <<>>
  /\ last.was[1].is_deleted = 1
  /\ ~IsNone(last.was[1].deleted_at)
  /\ last.was[1].deleted_at # boards[last.arg].deleted_at

----------------------------------------------------------------------------
(* C7 - Restore *)

\* what Restore does to the board it addresses: the response is the stored
\* board, which is the board as it was with isDeleted false and deletedAt
\* null, and the row changed in the soft-delete columns only
RestoreFrame ==
  (last.op = "restore_board" /\ last.was # <<>>) =>
    /\ last.status = 200
    /\ last.body[1] = View(boards, last.arg)
    /\ View(boards, last.arg) =
         [PCBBoard(row_to_board_dict(last.was[1])) EXCEPT
            !.isDeleted = Some(FALSE), !.deletedAt = NULL]
    /\ SameButDeletion(boards[last.arg], last.was[1])
    /\ boards[last.arg].is_deleted = 0
    /\ boards[last.arg].deleted_at = NULL

\* the step is a Restore of the board whose SoftDelete was served just before
RestoresJustDeleted(board_id) ==
  /\ Served("soft_delete_board")
  /\ last.arg = board_id
  /\ Restore(board_id)

\* C7 as stated: Restore of a stored board leaves isDeleted false and
\* deletedAt null and nothing else changed, and SoftDelete followed by
\* Restore returns the board to the content it had before the SoftDelete.
C7_RestoreUndoesDelete ==
  /\ []RestoreFrame
  /\ [][\A board_id \in AddrIds(MaxBoards) :
          RestoresJustDeleted(board_id) =>
            View(boards', board_id) = PCBBoard(row_to_board_dict(last.was[1]))]_vars

\* C7 amended: Restore of a stored board leaves isDeleted false and deletedAt
\* null and nothing else changed, and SoftDelete followed by Restore returns
\* the board to the content it had before the SoftDelete when that content
\* had isDeleted false and deletedAt null.
C7_RestoreUndoesDeleteOfLiveBoard ==
  /\ []RestoreFrame
  /\ [][\A board_id \in AddrIds(MaxBoards) :
          (/\ RestoresJustDeleted(board_id)
           /\ last.was[1].is_deleted = 0
           /\ last.was[1].deleted_at = NULL) =>
            View(boards', board_id) = PCBBoard(row_to_board_dict(last.was[1]))]_vars

\* a Restore of a soft-deleted board that had been updated has been served
C7_Witness ==
  /\ Served("restore_board")
  /\ last.was[1].is_deleted = 1
  /\ ~IsNone(last.was[1].deleted_at)
  /\ last.was[1].board_name = "Gamma"
  /\ View(boards, last.arg).boardName = "Gamma"
  /\ View(boards, last.arg).stages = EditedStages

----------------------------------------------------------------------------
(* C8 - NotFound *)

\* the step is a board request addressed to board_id, other than Create
AddressedWrite(board_id) ==
  \/ \E board \in UpdateRequests(board_id) : board.id = board_id /\ Update(board_id, board)
  \/ SoftDelete(board_id)
  \/ Restore(board_id)
  \/ HardDelete(board_id)

\* C8: for an id that is not in the board store Get answers 404, and Update
\* (payload id equal to the addressed id), SoftDelete, Restore and HardDelete
\* answer 404 and leave the board store and the change log as they were.
C8_NotFound ==
  [][\A board_id \in AddrIds(MaxBoards) :
       board_id \notin DOMAIN boards =>
         /\ get_board(boards, board_id) = [status |-> 404, body |-> <<>>]
         /\ Get(board_id) => UNCHANGED <<boards, change_log>>
         /\ AddressedWrite(board_id) =>
              /\ last'.status = 404
              /\ last'.body = <<>>
              /\ UNCHANGED <<boards, change_log>>]_vars

\* a request to a hard-deleted board answered 404 while the log has entries
C8_Witness ==
  /\ last.op \in {"update_board", "soft_delete_board", "restore_board",
                  "permanent_delete_board"}
  /\ last.status = 404
  /\ last.arg = BoardId(1)
  /\ boardIds >= 1
  /\ change_log # <<>>

----------------------------------------------------------------------------
(* C9 - Append *)

\* C9: every Append is answered 200, adds exactly one entry and changes no
\* other, and every change-log List(boardId) for the boardId of the request
\* then returns the entry of the response.
C9_AppendSucceeds ==
  [][\A req \in ChangelogRequests :
       ChangelogAppend(req) =>
         /\ last'.status = 200
         /\ last'.body[1].boardId = req.boardId
         /\ Cardinality(DOMAIN change_log') = Cardinality(DOMAIN change_log) + 1
         /\ \A k \in DOMAIN change_log : k \in DOMAIN change_log' /\ change_log'[k] = change_log[k]
         /\ get_changelog(change_log', Some(req.boardId)) # {}
         /\ \A q \in get_changelog(change_log', Some(req.boardId)) :
              last'.body[1] \in SeqRange(q)]_vars

\* an Append for a hard-deleted board has been served
C9_Witness ==
  /\ Served("add_changelog")
  /\ last.arg = BoardId(1)
  /\ boardIds >= 1
  /\ BoardId(1) \notin DOMAIN boards
  /\ \A q \in get_changelog(change_log, Some(BoardId(1))) : last.body[1] \in SeqRange(q)

----------------------------------------------------------------------------
(* C10 - change-log List *)

\* the entries Append stored, as the API returns them
StoredEntries == {ChangeLogEntry(row_to_changelog_dict(change_log[k])) : k \in DOMAIN change_log}

\* C10: change-log List(boardId) returns exactly the stored entries whose
\* boardId is the given value, for every boardId a request may carry, and
\* List without a boardId returns all stored entries.
C10_ListFiltersByBoardId ==
  /\ \A b \in LogBoardIds :
       /\ get_changelog(change_log, Some(b)) # {}
       /\ \A q \in get_changelog(change_log, Some(b)) :
            SeqRange(q) = {e \in StoredEntries : e.boardId = b}
  /\ \A q \in get_changelog(change_log, NULL) : SeqRange(q) = StoredEntries

----------------------------------------------------------------------------
(* C11 - the change log is append-only *)

\* C11: no step changes a stored entry; the log changes only by an Append or
\* a HardDelete (so Create, Update, SoftDelete and Restore leave it as it
\* is, and the List(boardId) of the addressed board returns after them what
\* it returned before); an entry leaves the log only by a successful
\* HardDelete of the board its boardId names.
C11_EntriesImmutable ==
  [][/\ \A k \in DOMAIN change_log \cap DOMAIN change_log' :
          change_log'[k] = change_log[k]
     /\ change_log' # change_log =>
          last'.op \in {"add_changelog", "permanent_delete_board"}
     /\ last'.op \in {"create_board", "update_board", "soft_delete_board", "restore_board"} =>
          /\ StoredEntries' = StoredEntries
          /\ get_changelog(change_log', Some(last'.arg)) =
               get_changelog(change_log, Some(last'.arg))
     /\ \A k \in DOMAIN change_log \ DOMAIN change_log' :
          /\ last'.op = "permanent_delete_board"
          /\ last'.status = 200
          /\ last'.arg = change_log[k].board_id]_vars

\* a soft-deleted board whose entry the change-log List still returns, next
\* to an entry of another boardId
C11_Witness ==
  /\ Served("soft_delete_board")
  /\ boards[last.arg].is_deleted = 1
  /\ \E k \in DOMAIN change_log : change_log[k].board_id # last.arg
  /\ \A q \in get_changelog(change_log, Some(last.arg)) :
       Len(q) = 1 /\ q[1].boardId = last.arg

----------------------------------------------------------------------------
(* C12 - Create of a duplicate *)

\* C12: every Create is answered 200 with a board under an id no stored
\* board has; it adds the row of that one board and leaves every stored row
\* as it was, whatever part number and revision the stored boards have.
C12_CreateAddsOne ==
  [][boardIds' # boardIds =>
       /\ last'.op = "create_board"
       /\ last'.status = 200
       /\ last'.body[1].id \notin DOMAIN boards
       /\ \A id \in DOMAIN boards : View(boards, id).id # last'.body[1].id
       /\ DOMAIN boards' = DOMAIN boards \cup {last'.body[1].id}
       /\ Cardinality(DOMAIN boards') = Cardinality(DOMAIN boards) + 1
       /\ View(boards', last'.body[1].id).id = last'.body[1].id
       /\ \A id \in DOMAIN boards : boards'[id] = boards[id]]_vars

\* two stored boards that agree in every caller-supplied field
C12_Witness ==
  /\ Served("create_board")
  /\ \E other \in DOMAIN boards :
       /\ other # last.arg
       /\ boards[other].board_name = boards[last.arg].board_name
       /\ boards[other].part_number = boards[last.arg].part_number
       /\ boards[other].revision = boards[last.arg].revision
       /\ boards[other].project = boards[last.arg].project
       /\ boards[other].is_new_revision = boards[last.arg].is_new_revision

----------------------------------------------------------------------------
(* C13 - Create then Get *)

\* C13: the board Create returns has the descriptive fields of the request,
\* arrivedDate "", isArrived false, passFailStatus unset, isDeleted false,
\* deletedAt null and the default stages, and Get of its id in the state
\* Create leaves returns that same board.
C13_CreateResult ==
  [][\A req \in CreateRequests :
       Create(req, MaxBoards) =>
         /\ last'.status = 200
         /\ last'.body[1].boardName = req.boardName
         /\ last'.body[1].partNumber = req.partNumber
         /\ last'.body[1].revision = req.revision
         /\ last'.body[1].project = req.project
         /\ last'.body[1].isNewRevision = req.isNewRevision
         /\ last'.body[1].arrivedDate = ""
         /\ last'.body[1].isArrived = FALSE
         /\ last'.body[1].passFailStatus = NULL
         /\ last'.body[1].isDeleted = Some(FALSE)
         /\ last'.body[1].deletedAt = NULL
         /\ last'.body[1].stages = StageList(build_default_stages)
         /\ get_board(boards', last'.body[1].id) =
              [status |-> 200, body |-> <<last'.body[1]>>]]_vars

\* a Create with isNewRevision set has been served and Get returns its result
C13_Witness ==
  /\ Served("create_board")
  /\ last.body[1].isNewRevision
  /\ get_board(boards, last.arg).body = last.body

----------------------------------------------------------------------------
(* C14 - the default stages *)

\* the tasks (Python dicts) carry the names of the template, in order, with
\* both approval flags false
MirrorsTasks(tasks, names) ==
  /\ tasks.t = "list"
  /\ Len(tasks.v) = Len(names)
  /\ \A i \in DOMAIN names :
       /\ tasks.v[i].v.name = PyStr(names[i])
       /\ tasks.v[i].v.designerApproved = PyBool(FALSE)
       /\ tasks.v[i].v.reviewerApproved = PyBool(FALSE)

\* stage s (a Python dict) mirrors template stage st
MirrorsStage(s, st) ==
  /\ s.v.name = PyStr(st.name)
  /\ HasKey(s.v, "tasks") # HasKey(s.v, "subcategories")
  /\ HasKey(s.v, "tasks") = HasKey(st, "tasks")
  /\ HasKey(s.v, "subcategories") = HasKey(st, "subcategories")
  /\ HasKey(s.v, "tasks") => MirrorsTasks(s.v.tasks, st.tasks)
  /\ HasKey(s.v, "subcategories") =>
       /\ Len(s.v.subcategories.v) = Len(st.subcategories)
       /\ \A i \in DOMAIN st.subcategories :
            /\ s.v.subcategories.v[i].v.name = PyStr(st.subcategories[i].name)
            /\ s.v.subcategories.v[i].v.designerApproved = PyBool(FALSE)
            /\ s.v.subcategories.v[i].v.reviewerApproved = PyBool(FALSE)
            /\ MirrorsTasks(s.v.subcategories.v[i].v.tasks, st.subcategories[i].tasks)

\* the tree mirrors the catalog stage by stage
MirrorsCatalog(tree) ==
  /\ Len(tree.v) = Len(STAGE_TEMPLATES)
  /\ \A i \in DOMAIN STAGE_TEMPLATES : MirrorsStage(tree.v[i], STAGE_TEMPLATES[i])

\* C14: build_default_stages mirrors the catalog (one stage per template
\* stage, in order, under the same name, with exactly one of tasks and
\* subcategories, the same task and subcategory names in order, every
\* approval flag false), and every Create stores and returns that one tree:
\* each returned stage has exactly one of tasks and subcategories set.
C14_DefaultStagesMirrorCatalog ==
  /\ MirrorsCatalog(build_default_stages)
  /\ Served("create_board") =>
       /\ json_loads(boards[last.arg].stages_json) = build_default_stages
       /\ MirrorsCatalog(json_loads(boards[last.arg].stages_json))
       /\ Len(last.body[1].stages) = Len(STAGE_TEMPLATES)
       /\ \A i \in DOMAIN last.body[1].stages :
            IsNone(last.body[1].stages[i].tasks) # IsNone(last.body[1].stages[i].subcategories)

\* a created board whose tree has flat stages and a stage with subcategories
C14_Witness ==
  /\ Served("create_board")
  /\ \E i \in DOMAIN last.body[1].stages : ~IsNone(last.body[1].stages[i].subcategories)
  /\ \E i \in DOMAIN last.body[1].stages : ~IsNone(last.body[1].stages[i].tasks)
  /\ View(boards, last.arg).stages = last.body[1].stages

----------------------------------------------------------------------------
(* C15 - Add of a user *)

\* every character of s is whitespace
AllSpaces(s) == \A i \in DOMAIN s : IsSpace(s[i])

\* n is s without its leading and trailing whitespace, and is not empty
TrimOf(n, s) ==
  /\ n # <<>>
  /\ ~IsSpace(n[1])
  /\ ~IsSpace(n[Len(n)])
  /\ \E lead \in 0..Len(s) :
       /\ lead + Len(n) <= Len(s)
       /\ SubSeq(s, lead + 1, lead + Len(n)) = n
       /\ AllSpaces(SubSeq(s, 1, lead))
       /\ AllSpaces(SubSeq(s, lead + Len(n) + 1, Len(s)))

\* C15: an Add whose name is empty or all whitespace is answered 400 and
\* leaves the users table as it was; any other Add is answered 200 with a
\* roster that holds the name without its leading and trailing whitespace,
\* which is the name the table then holds, and the padded name as supplied
\* is not stored by it.
C15_AddTrims ==
  [][(last'.op = "add_user" /\ last' # last) =>
       IF AllSpaces(last'.arg)
       THEN /\ last'.status = 400
            /\ last'.body = <<>>
            /\ users' = users
       ELSE /\ last'.status = 200
            /\ \E n \in DOMAIN users' :
                 /\ TrimOf(n, last'.arg)
                 /\ n \in SeqRange(last'.body)
                 /\ DOMAIN users' = DOMAIN users \cup {n}
            /\ SeqRange(last'.body) = DOMAIN users'
            /\ (last'.arg \notin DOMAIN users /\ ~TrimOf(last'.arg, last'.arg)) =>
                 last'.arg \notin DOMAIN users']_vars

\* an Add of a name with whitespace on both sides stored the bare name
C15_Witness ==
  /\ Served("add_user")
  /\ Len(last.arg) = 3
  /\ IsSpace(last.arg[1])
  /\ IsSpace(last.arg[3])
  /\ last.arg \notin DOMAIN users
  /\ <<last.arg[2]>> \in DOMAIN users
  /\ <<last.arg[2]>> \notin DOMAIN last.was[1]
  /\ <<last.arg[2]>> \in SeqRange(last.body)

----------------------------------------------------------------------------
(* C16 - the user directory is idempotent *)

\* the roster List returns has no name twice, and a second Remove of any
\* name returns what the first returned
RosterIdempotent ==
  /\ Len(list_users(users).body) = Cardinality(SeqRange(list_users(users).body))
  /\ SeqRange(list_users(users).body) = DOMAIN users
  /\ \A name \in PathNames :
       LET once == remove_user(users, name)
           twice == remove_user(once.users, name)
       IN /\ once.status = 200
          /\ twice.status = 200
          /\ twice.body = once.body
          /\ twice.users = once.users

\* C16: Remove is answered 200 also for a name that is not stored, and then
\* leaves the table as it was; a Remove repeated returns the roster of the
\* first; an Add of a name that is stored is answered 200 and leaves the
\* table as it was; no roster holds a name twice.
C16_DirectoryIdempotent ==
  /\ []RosterIdempotent
  /\ [][/\ (last'.op = "remove_user" /\ last' # last) =>
             /\ last'.status = 200
             /\ last'.arg \notin SeqRange(last'.body)
             /\ Len(last'.body) = Cardinality(SeqRange(last'.body))
             /\ last'.arg \notin DOMAIN users => users' = users
             /\ (last.op = "remove_user" /\ last.arg = last'.arg) =>
                  (last'.body = last.body /\ users' = users)
        /\ (/\ last'.op = "add_user"
            /\ last' # last
            /\ \E n \in DOMAIN users : TrimOf(n, last'.arg)) =>
             /\ last'.status = 200
             /\ users' = users
             /\ last'.body = list_users(users).body
             /\ Len(last'.body) = Cardinality(SeqRange(last'.body))]_vars

\* a Remove of a name that is not stored, served on a roster of two names
\* right after an Add of a stored name
C16_Witness ==
  /\ Served("remove_user")
  /\ last.arg \notin DOMAIN last.was[1]
  /\ users = last.was[1]
  /\ Len(last.body) = 2
  /\ last.body = list_users(users).body

----------------------------------------------------------------------------
(* C17 - a request next to a HardDelete of the same board *)

\* C17: an Update, SoftDelete or Restore served next to other requests is
\* answered 200 only if its write found the board stored, and is never
\* answered with an unclassified error: it takes effect on a stored board or
\* is answered 404 (or 400 on an id mismatch).
C17_CheckAndWriteAtomic ==
  last.op \in {"update_board", "soft_delete_board", "restore_board"} =>
    /\ last.status \in {200, 400, 404}
    /\ last.status = 200 => last.was # <<>>

----------------------------------------------------------------------------
(* C18 - two Updates of the same board at the same time *)

\* the step is the write of an Update whose SELECT came before the commit
\* of another Update of the same board, which is stored when it writes
SecondUpdateCommits(t) ==
  /\ inflight[t].pc = "update_board"
  /\ inflight[t].since = Some("update_board")
  /\ inflight[t].board_id \in DOMAIN boards
  /\ UpdateCommit(t)

\* C18 as stated: the Update that commits second is answered 200 and the
\* stored board then has every mutable field of its payload, isDeleted
\* included.
C18_LastWriteWins ==
  [][\A t \in Threads :
       SecondUpdateCommits(t) =>
         /\ last'.status = 200
         /\ CarriesPayload(View(boards', inflight[t].board_id), inflight[t].board)
         /\ View(boards', inflight[t].board_id).isDeleted = inflight[t].board.isDeleted]_vars

\* C18 amended: the Update that commits second is answered 200 and the
\* stored board then has every mutable field of its payload, a payload
\* isDeleted of null being stored as false; an Update whose SELECT found
\* the board goes on to its write.
C18_LastWriteWinsNormalised ==
  [][\A t \in Threads :
       /\ SecondUpdateCommits(t) =>
            /\ last'.status = 200
            /\ CarriesPayload(View(boards', inflight[t].board_id), inflight[t].board)
            /\ View(boards', inflight[t].board_id).isDeleted =
                 (IF IsNone(inflight[t].board.isDeleted)
                  THEN Some(FALSE) ELSE inflight[t].board.isDeleted)
       /\ \A board_id \in DOMAIN boards : \A board \in FleetUpdateRequests(board_id) :
            UpdateSelect(t, board_id, board) => inflight'[t].pc = "update_board"]_vars

\* an Update committed over the row another Update had written since its
\* SELECT, and the stored board has its payload
C18_Witness ==
  /\ Served("update_board")
  /\ last.since = Some("update_board")
  /\ last.was # <<>>
  /\ last.was[1].board_name = "Gamma"
  /\ last.body[1].boardName = "Alpha"
  /\ View(boards, last.arg).boardName = "Alpha"
  /\ View(boards, last.arg).stages = <<>>

----------------------------------------------------------------------------
(* C19 - the board Update returns *)

\* C19: the board a successful Update returns is the board Get returns in
\* the state the Update leaves, in every field.
C19_UpdateReturnsStored ==
  Served("update_board") => last.body[1] = View(boards, last.arg)

----------------------------------------------------------------------------
(* C20 - isDeleted and deletedAt *)

\* isDeleted is true exactly when deletedAt is set
FlagMatchesTimestamp(b) == (b.isDeleted = Some(TRUE)) <=> (b.deletedAt # NULL)

\* C20 as stated: every stored board has isDeleted true exactly when its
\* deletedAt is set.
C20_FlagIffTimestamp ==
  \A id \in DOMAIN boards : FlagMatchesTimestamp(View(boards, id))

\* C20 amended: Create, SoftDelete and Restore leave the board they address
\* with isDeleted true exactly when deletedAt is set; Update stores the
\* isDeleted (null as false) and deletedAt of its payload as they are; and
\* a stored board is at odds only by such an Update, until the next
\* SoftDelete or Restore.
C20_FlagFollowsLastWrite ==
  [][/\ (last'.op \in {"create_board", "soft_delete_board", "restore_board"}
           /\ last'.status = 200) =>
          FlagMatchesTimestamp(View(boards', last'.arg))
     /\ (last'.op = "update_board" /\ last'.status = 200) =>
          /\ View(boards', last'.arg).isDeleted =
               (IF IsNone(last'.body[1].isDeleted)
                THEN Some(FALSE) ELSE last'.body[1].isDeleted)
          /\ View(boards', last'.arg).deletedAt = last'.body[1].deletedAt
     /\ \A id \in DOMAIN boards' :
          \/ FlagMatchesTimestamp(View(boards', id))
          \/ /\ id \in DOMAIN boards
             /\ View(boards', id).isDeleted = View(boards, id).isDeleted
             /\ View(boards', id).deletedAt = View(boards, id).deletedAt
          \/ /\ last'.op = "update_board"
             /\ last'.status = 200
             /\ last'.arg = id]_vars

\* a Restore of a board an Update had left with isDeleted true and no
\* deletedAt
C20_Witness ==
  /\ Served("restore_board")
  /\ last.was[1].is_deleted = 1
  /\ last.was[1].deleted_at = NULL
  /\ FlagMatchesTimestamp(View(boards, last.arg))

----------------------------------------------------------------------------
(* C21 - entries of a board that is not stored *)

\* boardId b names no stored board and no board still to be created: the
\* board was hard-deleted, or there never is one
Gone(b) ==
  /\ b \notin DOMAIN boards
  /\ b \notin {BoardId(n) : n \in (boardIds + 1)..MaxBoards}

\* C21: an entry in the log whose boardId names a board that was
\* hard-deleted, or that never exists, is in the log after every step,
\* unchanged, and the change-log List of that boardId keeps returning it.
C21_OrphanEntriesStay ==
  [][\A k \in DOMAIN change_log :
       Gone(change_log[k].board_id) =>
         /\ k \in DOMAIN change_log'
         /\ change_log'[k] = change_log[k]
         /\ \A q \in get_changelog(change_log', Some(change_log[k].board_id)) :
              ChangeLogEntry(row_to_changelog_dict(change_log[k])) \in SeqRange(q)]_vars
====
